---- MODULE Spec2Model ----
(***************************************************************************)
(* Model of backend/app.py: a voting web application with two storage      *)
(* backends (a local sqlite file, a networked Postgres server), selected   *)
(* once when the module is imported, and six request handlers.             *)
(*                                                                         *)
(* Requests are handled concurrently (one thread per request); a handler   *)
(* is a sequence of steps, one per storage call.  A storage call is one    *)
(* step: the table changes only at its commit, and a call shares nothing   *)
(* else with the other threads.  The store starts empty (a fresh           *)
(* deployment) and can refuse any connection and fail any statement.       *)
(***************************************************************************)
EXTENDS Integers, Sequences, FiniteSets, TLC

\* ------------------------------------------------------------------ bounds

\* Requests the server receives in one run.
MaxRequests == 3

\* Request threads that can be in flight at once.
Workers == {1, 2}

\* ------------------------------------------------------- program constants

\* candidate VARCHAR(255) NOT NULL
VarcharLen == 255

\* ----------------------------------------------------------- Python values

None == [t |-> "none"]
PyStr(s) == [t |-> "str", s |-> s]
PyInt(n) == [t |-> "int", n |-> n]
PyDict(d) == [t |-> "dict", d |-> d]
PyList(l) == [t |-> "list", l |-> l]

\* bool(v), as `if v:` and `not v` evaluate it.
Truthy(v) ==
    CASE v.t = "none" -> FALSE
      [] v.t = "str"  -> v.s # ""
      [] v.t = "int"  -> v.n # 0
      [] v.t = "dict" -> DOMAIN v.d # {}
      [] v.t = "list" -> v.l # <<>>

\* sub in s, for two strings.
IsSubstring(sub, s) ==
    \E i \in 1..(Len(s) - Len(sub) + 1) : SubSeq(s, i, i + Len(sub) - 1) = sub

\* `key in v`: "True", "False", or "TypeError" when v is not a container.
Contains(key, v) ==
    CASE v.t = "dict" -> IF key \in DOMAIN v.d THEN "True" ELSE "False"
      [] v.t = "list" -> IF \E i \in DOMAIN v.l : v.l[i] = key THEN "True" ELSE "False"
      [] v.t = "str"  -> IF IsSubstring(key, v.s) THEN "True" ELSE "False"
      [] OTHER        -> "TypeError"

\* str(n) for an integer n.
Digit == <<"0", "1", "2", "3", "4", "5", "6", "7", "8", "9">>

RECURSIVE NatToText(_)
NatToText(n) ==
    IF n < 10 THEN Digit[n + 1] ELSE NatToText(n \div 10) \o Digit[(n % 10) + 1]

IntToText(n) == IF n < 0 THEN "-" \o NatToText(-n) ELSE NatToText(n)

RECURSIVE Repeat(_, _)
Repeat(s, n) == IF n = 0 THEN "" ELSE s \o Repeat(s, n - 1)

\* A candidate name one character longer than the Postgres column holds.
LongName == Repeat("x", VarcharLen + 1)

\* ------------------------------------------------------------------ storage

Backends == {"sqlite", "postgres"}

\* What the driver and the column make of a bound parameter: the text stored,
\* or the error the statement raises.  The column is TEXT NOT NULL in sqlite and
\* VARCHAR(255) NOT NULL in Postgres; both store a bound integer as its text.
Stored(text) == [ok |-> TRUE, text |-> text]
Raises(err) == [ok |-> FALSE, err |-> err]

Bind(backend, v) ==
    CASE v.t = "none" -> Raises("IntegrityError")
      [] v.t = "str"  -> IF backend = "postgres" /\ Len(v.s) > VarcharLen
                         THEN Raises("DataError")
                         ELSE Stored(v.s)
      [] v.t = "int"  -> Stored(IntToText(v.n))
      [] v.t = "dict" -> Raises("ProgrammingError")

\* SELECT candidate, COUNT(*) FROM votes GROUP BY candidate: the result rows
\* <<candidate, count>>, one per group, built by a scan of the table.
RECURSIVE GroupByCount(_)
GroupByCount(rows) ==
    IF rows = <<>>
    THEN <<>>
    ELSE LET groups == GroupByCount(SubSeq(rows, 1, Len(rows) - 1))
             c == rows[Len(rows)]
         IN IF \E g \in DOMAIN groups : groups[g][1] = c
            THEN LET g == CHOOSE g \in DOMAIN groups : groups[g][1] = c
                 IN [groups EXCEPT ![g] = <<c, @[2] + 1>>]
            ELSE Append(groups, <<c, 1>>)

\* Faulty variant of DictOfRows: the count column is dropped, every key maps to 1.
DictOfRowsKeysOnly(fetched) ==
    [k \in {fetched[i][1] : i \in DOMAIN fetched} |-> 1]

\* {row[0]: row[1] for row in rows}: a later row replaces an earlier one with
\* the same key.
DictOfRows(fetched) ==
    [k \in {fetched[i][1] : i \in DOMAIN fetched} |->
        LET last == CHOOSE i \in DOMAIN fetched :
                        /\ fetched[i][1] = k
                        /\ \A j \in DOMAIN fetched : fetched[j][1] = k => j <= i
        IN fetched[last][2]]

\* ------------------------------------------------------------------- routes

Rules ==
    { [rule |-> "/",            methods |-> {"GET", "POST"}, endpoint |-> "index"],
      [rule |-> "/vote",        methods |-> {"POST"},        endpoint |-> "vote"],
      [rule |-> "/api/vote",    methods |-> {"POST"},        endpoint |-> "api_vote"],
      [rule |-> "/api/results", methods |-> {"GET"},         endpoint |-> "api_results"],
      [rule |-> "/health",      methods |-> {"GET"},         endpoint |-> "health"],
      [rule |-> "/css/app.css", methods |-> {"GET"},         endpoint |-> "static"] }

\* The view function a request is dispatched to, or the router's own answer.
Endpoint(r) ==
    IF \E x \in Rules : x.rule = r.route /\ r.method \in x.methods
    THEN (CHOOSE x \in Rules : x.rule = r.route /\ r.method \in x.methods).endpoint
    ELSE IF \E x \in Rules : x.rule = r.route THEN "405" ELSE "404"

\* ----------------------------------------------------------------- requests

\* request.form.get('option'): None when the field is absent.
FormOptions == {None, PyStr(""), PyStr("AWS"), PyStr("Azure"), PyStr(LongName)}

\* Values a JSON body carries under "option".
JsonOptions == {PyStr("AWS"), PyStr(""), None, PyInt(5), PyDict(<<>>)}

\* request.get_json(silent=True): None when the body is absent or does not
\* parse; otherwise any JSON value.
JsonBodies ==
    {None, PyDict(<<>>), PyDict("other" :> PyStr("AWS")),
     PyList(<<"option">>), PyStr("my option"), PyInt(5)}
    \cup {PyDict("option" :> v) : v \in JsonOptions}

Request(route, method, form, json) ==
    [route |-> route, method |-> method, form |-> form, json |-> json]

NoRequest == Request("", "", None, None)

Requests ==
    {Request(p, "GET", None, None) :
        p \in {"/", "/vote", "/api/results", "/health", "/css/app.css", "/favicon.ico"}}
    \cup {Request(p, "POST", f, None) : p \in {"/", "/vote"}, f \in FormOptions}
    \cup {Request("/api/vote", "POST", None, j) : j \in JsonBodies}

\* The requests the router hands to each view function.
RequestsTo(endpoints) == {r \in Requests : Endpoint(r) \in endpoints}
IndexRequests == RequestsTo({"index"})
VoteRequests == RequestsTo({"vote"})
ApiVoteRequests == RequestsTo({"api_vote"})
ApiResultsRequests == RequestsTo({"api_results"})
HealthRequests == RequestsTo({"health"})
RouterRequests == RequestsTo({"static", "404", "405"})

Response(status, kind, data) == [status |-> status, kind |-> kind, data |-> data]

NoResponse == Response(0, "", "")

ServerError == Response(500, "text", "Internal Server Error")

\* -------------------------------------------------------------------- state

VARIABLES
    DB_HOST,        \* os.environ.get('DB_HOST'): None or a string
    psycopg2,       \* TRUE when the optional driver was imported, FALSE for None
    USE_POSTGRES,   \* the module-level flag
    phase,          \* "import" while the module body runs, then "serving" or "fatal"
    votes,          \* per backend: does the votes table exist, and its rows in id order
    opened,         \* per backend: was a connection to it ever opened
    pc,             \* per request thread: where its handler stands
    req,            \* per request thread: the request it handles
    candidate,      \* per request thread: the argument of insert_vote
    results,        \* per request thread: what get_results returned
    resp,           \* per request thread: the response of the finished handler
    calls,          \* per request thread: the storage functions it called so far
    inserted,       \* per request thread: rows its request added
    unclosed,       \* per request thread: connections its calls left without conn.close()
    accepted,       \* insert_vote calls that returned normally
    received        \* requests received so far

vars == <<DB_HOST, psycopg2, USE_POSTGRES, phase, votes, opened, pc, req, candidate,
          results, resp, calls, inserted, unclosed, accepted, received>>

config == <<DB_HOST, psycopg2, USE_POSTGRES>>
threads == <<pc, req, candidate, results, resp, calls, inserted>>

NoResults == <<>>

\* Faulty variant of Backend: fall back to sqlite when the driver is missing.
BackendWithFallback == IF USE_POSTGRES /\ psycopg2 THEN "postgres" ELSE "sqlite"

\* if USE_POSTGRES: ... else: ..., as every storage function branches.
Backend == IF USE_POSTGRES THEN "postgres" ELSE "sqlite"

\* The environments a process starts in: DB_HOST unset, empty or set, with and
\* without the driver installed.
Environments ==
    { <<None, FALSE>>, <<PyStr(""), TRUE>>,
      <<PyStr("votes.rds.example.com"), TRUE>>,
      <<PyStr("votes.rds.example.com"), FALSE>> }

Init ==
    /\ \E e \in Environments : DB_HOST = e[1] /\ psycopg2 = e[2]
    /\ USE_POSTGRES = Truthy(DB_HOST)
    /\ phase = "import"
    /\ votes = [b \in Backends |-> [table |-> FALSE, rows |-> <<>>]]
    /\ opened = [b \in Backends |-> FALSE]
    /\ pc = [w \in Workers |-> "idle"]
    /\ req = [w \in Workers |-> NoRequest]
    /\ candidate = [w \in Workers |-> None]
    /\ results = [w \in Workers |-> NoResults]
    /\ resp = [w \in Workers |-> NoResponse]
    /\ calls = [w \in Workers |-> <<>>]
    /\ inserted = [w \in Workers |-> 0]
    /\ unclosed = [w \in Workers |-> 0]
    /\ accepted = 0
    /\ received = 0

\* ------------------------------------------------------------------ startup

\* CREATE TABLE IF NOT EXISTS votes (...)
CreateTable(b) == [votes EXCEPT ![b].table = TRUE]

\* init_sqlite(), run by the module body when USE_POSTGRES is false.  The store
\* can refuse the connection or the statement; the exception ends the import.
init_sqlite ==
    /\ phase = "import"
    /\ Backend = "sqlite"
    /\ \E ok \in BOOLEAN :
        IF ok
        THEN /\ opened' = [opened EXCEPT !["sqlite"] = TRUE]
             /\ votes' = CreateTable("sqlite")
             /\ phase' = "serving"
        ELSE /\ phase' = "fatal"
             /\ UNCHANGED <<opened, votes>>
    /\ UNCHANGED <<config, threads, unclosed, accepted, received>>

\* init_postgres(), run by the module body when USE_POSTGRES is true.
init_postgres ==
    /\ phase = "import"
    /\ Backend = "postgres"
    /\ IF ~psycopg2
       THEN \* raise RuntimeError("psycopg2 is required for Postgres usage...")
            /\ phase' = "fatal"
            /\ UNCHANGED <<opened, votes>>
       ELSE \E ok \in BOOLEAN :
            IF ok
            THEN /\ opened' = [opened EXCEPT !["postgres"] = TRUE]
                 /\ votes' = CreateTable("postgres")
                 /\ phase' = "serving"
            ELSE /\ phase' = "fatal"
                 /\ UNCHANGED <<opened, votes>>
    /\ UNCHANGED <<config, threads, unclosed, accepted, received>>

\* ----------------------------------------------------------------- handlers

\* A request arrives at an idle thread of the serving process.
Arrives(w, r) ==
    /\ phase = "serving"
    /\ pc[w] = "idle"
    /\ received < MaxRequests
    /\ received' = received + 1
    /\ req' = [req EXCEPT ![w] = r]

\* The handler returns `response` without touching storage.
Returns(w, response) ==
    /\ pc' = [pc EXCEPT ![w] = "done"]
    /\ resp' = [resp EXCEPT ![w] = response]
    /\ UNCHANGED <<candidate, calls>>

\* The handler calls insert_vote(v).
CallsInsert(w, v) ==
    /\ pc' = [pc EXCEPT ![w] = "insert_vote"]
    /\ candidate' = [candidate EXCEPT ![w] = v]
    /\ calls' = [calls EXCEPT ![w] = Append(@, "insert_vote")]
    /\ UNCHANGED resp

\* v[key]
GetItem(v, key) ==
    IF v.t = "dict"
    THEN IF key \in DOMAIN v.d
         THEN [ok |-> TRUE, value |-> v.d[key]]
         ELSE [ok |-> FALSE, err |-> "KeyError"]
    ELSE [ok |-> FALSE, err |-> "TypeError"]

\* Faulty variant of FormAccepts: `if provider is not None:`, which lets "" through.
FormAcceptsPresent(option) == option.t # "none"

\* The form handlers' test of the submitted field: `if provider:`.
FormAccepts(option) == Truthy(option)

\* index(): GET renders the form; POST with an option votes and shows results.
index(w) ==
    /\ \E r \in IndexRequests :
        /\ Arrives(w, r)
        /\ IF r.method = "POST" /\ FormAccepts(r.form)
           THEN CallsInsert(w, r.form)
           ELSE Returns(w, Response(200, "template", "index.html"))
    /\ UNCHANGED <<config, phase, votes, opened, results, inserted,
                   unclosed, accepted>>

\* vote(): the legacy form endpoint.
vote(w) ==
    /\ \E r \in VoteRequests :
        /\ Arrives(w, r)
        /\ IF FormAccepts(r.form)
           THEN CallsInsert(w, r.form)
           ELSE Returns(w, Response(302, "redirect", "/"))
    /\ UNCHANGED <<config, phase, votes, opened, results, inserted,
                   unclosed, accepted>>

OptionRequired == Response(400, "json", "error: option required")
StatusOk == Response(200, "json", "status: ok")

\* api_vote(): data = request.get_json(silent=True);
\* if not data or 'option' not in data: 400; insert_vote(data['option']).
api_vote(w) ==
    /\ \E r \in ApiVoteRequests :
        /\ Arrives(w, r)
        /\ LET data == r.json IN
           IF ~Truthy(data)
           THEN Returns(w, OptionRequired)
           ELSE LET has == Contains("option", data) IN
                CASE has = "TypeError" -> Returns(w, ServerError)
                  [] has = "False"     -> Returns(w, OptionRequired)
                  [] has = "True"      ->
                        LET item == GetItem(data, "option") IN
                        IF item.ok
                        THEN CallsInsert(w, item.value)
                        ELSE Returns(w, ServerError)
    /\ UNCHANGED <<config, phase, votes, opened, results, inserted,
                   unclosed, accepted>>

\* The handler calls get_results().
CallsGet(w) ==
    /\ pc' = [pc EXCEPT ![w] = "get_results"]
    /\ calls' = [calls EXCEPT ![w] = Append(@, "get_results")]
    /\ UNCHANGED <<resp, candidate>>

\* Faulty variant of api_results: the read endpoint records a row for each view.
api_results_counting_views(w) ==
    /\ \E r \in ApiResultsRequests :
        /\ Arrives(w, r)
        /\ CallsInsert(w, PyStr("views"))
    /\ UNCHANGED <<config, phase, votes, opened, results, inserted,
                   unclosed, accepted>>

\* api_results(): jsonify(get_results()).
api_results(w) ==
    /\ \E r \in ApiResultsRequests :
        /\ Arrives(w, r)
        /\ CallsGet(w)
    /\ UNCHANGED <<config, phase, votes, opened, results, inserted,
                   unclosed, accepted>>

\* health(): "OK", 200.
health(w) ==
    /\ \E r \in HealthRequests :
        /\ Arrives(w, r)
        /\ Returns(w, Response(200, "text", "OK"))
    /\ UNCHANGED <<config, phase, votes, opened, results, inserted,
                   unclosed, accepted>>

\* Flask's own answers: a static file, 404 for an unknown path, 405 for a
\* method the rule does not list.
static(w) ==
    /\ \E r \in RouterRequests :
        /\ Arrives(w, r)
        /\ Returns(w, CASE Endpoint(r) = "static" -> Response(200, "file", r.route)
                        [] Endpoint(r) = "404" -> Response(404, "text", "Not Found")
                        [] Endpoint(r) = "405" -> Response(405, "text", "Method Not Allowed"))
    /\ UNCHANGED <<config, phase, votes, opened, results, inserted,
                   unclosed, accepted>>

\* ------------------------------------------------------------ storage calls

\* The exception leaves the view function; Flask answers 500.
Raise(w) ==
    /\ pc' = [pc EXCEPT ![w] = "done"]
    /\ resp' = [resp EXCEPT ![w] = ServerError]

\* Faulty variant of InsertRow: an upsert that keeps one row per candidate.
InsertRowIfNew(rows, text) ==
    IF \E i \in DOMAIN rows : rows[i] = text THEN rows ELSE Append(rows, text)

\* Faulty variant of InsertRow: the new vote overwrites the newest row.
InsertRowReplacingLast(rows, text) ==
    IF rows = <<>> THEN <<text>> ELSE [rows EXCEPT ![Len(rows)] = text]

\* INSERT INTO votes (candidate) VALUES (?)
InsertRow(rows, text) == Append(rows, text)

\* Faulty variant of AfterInsert: the JSON endpoint also reads the results back.
AfterInsertReadingBack(w) ==
    /\ pc' = [pc EXCEPT ![w] = "get_results"]
    /\ calls' = [calls EXCEPT ![w] = Append(@, "get_results")]
    /\ UNCHANGED resp

\* The caller's code after insert_vote returned.
AfterInsert(w) ==
    IF Endpoint(req[w]) = "api_vote"
    THEN /\ pc' = [pc EXCEPT ![w] = "done"]
         /\ resp' = [resp EXCEPT ![w] = StatusOk]
         /\ UNCHANGED calls
    ELSE /\ pc' = [pc EXCEPT ![w] = "get_results"]
         /\ calls' = [calls EXCEPT ![w] = Append(@, "get_results")]
         /\ UNCHANGED resp

\* The caller's code after get_results returned.
AfterGet(w) ==
    IF Endpoint(req[w]) = "api_results"
    THEN Response(200, "json", "results")
    ELSE Response(200, "template", "result.html")

\* What the store does to a call: refuse the connection, fail the statement
\* (or its commit) on the open connection, or serve it.
Outcomes == {"refused", "failed", "served"}

\* insert_vote(candidate): connect, execute, commit, close.  The statement
\* raises when the parameter cannot be stored; nothing after the raising line
\* runs, conn.close() included, and sqlite's `with` block rolls back without
\* closing.  When nothing raises, Postgres' connection is closed by
\* conn.close() and sqlite's when the function's locals are dropped at return.
insert_vote(w) ==
    /\ pc[w] = "insert_vote"
    /\ \E outcome \in Outcomes :
        LET b == Backend
            bound == Bind(b, candidate[w])
        IN CASE outcome = "refused" ->
                    /\ Raise(w)
                    /\ UNCHANGED <<votes, opened, inserted, accepted, calls, unclosed>>
             [] outcome = "failed" \/ (outcome = "served" /\ ~bound.ok) ->
                    /\ opened' = [opened EXCEPT ![b] = TRUE]
                    /\ unclosed' = [unclosed EXCEPT ![w] = @ + 1]
                    /\ Raise(w)
                    /\ UNCHANGED <<votes, inserted, accepted, calls>>
             [] outcome = "served" /\ bound.ok ->
                    /\ opened' = [opened EXCEPT ![b] = TRUE]
                    /\ votes' = [votes EXCEPT ![b].rows = InsertRow(@, bound.text)]
                    /\ inserted' = [inserted EXCEPT ![w] = @ + 1]
                    /\ accepted' = accepted + 1
                    /\ AfterInsert(w)
                    /\ UNCHANGED unclosed
    /\ UNCHANGED <<config, phase, req, candidate, results, received>>

\* get_results(): connect, query, fetchall, close, build the dict.
get_results(w) ==
    /\ pc[w] = "get_results"
    /\ \E outcome \in Outcomes :
        LET b == Backend IN
        CASE outcome = "refused" ->
                /\ Raise(w)
                /\ UNCHANGED <<opened, results, unclosed>>
          [] outcome = "failed" ->
                /\ opened' = [opened EXCEPT ![b] = TRUE]
                /\ unclosed' = [unclosed EXCEPT ![w] = @ + 1]
                /\ Raise(w)
                /\ UNCHANGED results
          [] outcome = "served" ->
                /\ opened' = [opened EXCEPT ![b] = TRUE]
                /\ results' = [results EXCEPT ![w] = DictOfRows(GroupByCount(votes[b].rows))]
                /\ pc' = [pc EXCEPT ![w] = "done"]
                /\ resp' = [resp EXCEPT ![w] = AfterGet(w)]
                /\ UNCHANGED unclosed
    /\ UNCHANGED <<config, phase, votes, req, candidate, calls, inserted,
                   accepted, received>>

\* The response is sent; the thread's locals are gone.
finish(w) ==
    /\ pc[w] = "done"
    /\ pc' = [pc EXCEPT ![w] = "idle"]
    /\ req' = [req EXCEPT ![w] = NoRequest]
    /\ candidate' = [candidate EXCEPT ![w] = None]
    /\ results' = [results EXCEPT ![w] = NoResults]
    /\ resp' = [resp EXCEPT ![w] = NoResponse]
    /\ calls' = [calls EXCEPT ![w] = <<>>]
    /\ inserted' = [inserted EXCEPT ![w] = 0]
    /\ unclosed' = [unclosed EXCEPT ![w] = 0]
    /\ UNCHANGED <<config, phase, votes, opened, accepted, received>>

Next ==
    \/ init_sqlite
    \/ init_postgres
    \/ \E w \in Workers :
        \/ index(w)
        \/ vote(w)
        \/ api_vote(w)
        \/ api_results(w)
        \/ health(w)
        \/ static(w)
        \/ insert_vote(w)
        \/ get_results(w)
        \/ finish(w)

Spec == Init /\ [][Next]_vars

\* ------------------------------------------------------------------- claims

\* The table of the backend in use, and what get_results() returns for a table.
Rows == votes[Backend].rows
ResultsOf(rows) == DictOfRows(GroupByCount(rows))
CountIn(m, c) == IF c \in DOMAIN m THEN m[c] ELSE 0

\* Thread w's call of insert_vote / get_results returns normally in this step.
InsertReturns(w) ==
    pc[w] = "insert_vote" /\ pc'[w] # "insert_vote" /\ resp'[w] # ServerError
GetReturns(w) ==
    pc[w] = "get_results" /\ pc'[w] # "get_results" /\ resp'[w] # ServerError

C2_ResultsAreGroupCounts ==
    [][\A w \in Workers :
        GetReturns(w)
        => LET got == results'[w]
           IN /\ DOMAIN got = {Rows[i] : i \in DOMAIN Rows}
              /\ \A c \in DOMAIN got :
                    got[c] = Cardinality({i \in DOMAIN Rows : Rows[i] = c})
              /\ (Rows = <<>> => DOMAIN got = {})
              /\ votes' = votes]_vars

\* A read returned two candidates, one of them with two votes.
C2_Witness ==
    \E w \in Workers :
        /\ pc[w] = "done"
        /\ resp[w].status = 200
        /\ Cardinality(DOMAIN results[w]) = 2
        /\ \E c \in DOMAIN results[w] : results[w][c] = 2

\* The body is a JSON object with the key "option".
HasOptionKey(json) == json.t = "dict" /\ "option" \in DOMAIN json.d

\* C3: a POST to /api/vote whose body is absent, unparseable or JSON without
\* the key "option" is answered 400 {"error": "option required"} without a call
\* of insert_vote and without a new row; and a request answered 200
\* {"status": "ok"} has inserted exactly one row.
C3_ApiVoteRejectsBodyWithoutOption ==
    \A w \in Workers :
        (pc[w] = "done" /\ Endpoint(req[w]) = "api_vote")
        => /\ ~HasOptionKey(req[w].json)
                => (resp[w] = OptionRequired /\ calls[w] = <<>> /\ inserted[w] = 0)
           /\ resp[w] = StatusOk => inserted[w] = 1

\* C4: a POST to /vote with no "option" field, or an empty one, is answered by
\* a redirect to "/" and adds no row; a POST to "/" without "option" renders
\* the form page without a call of insert_vote.
C4_FormWithoutOptionStoresNothing ==
    \A w \in Workers :
        (pc[w] = "done" /\ req[w].method = "POST")
        => /\ (req[w].route = "/vote" /\ req[w].form \in {None, PyStr("")})
                => /\ resp[w] = Response(302, "redirect", "/")
                   /\ calls[w] = <<>>
                   /\ inserted[w] = 0
           /\ (req[w].route = "/" /\ req[w].form = None)
                => /\ resp[w] = Response(200, "template", "index.html")
                   /\ calls[w] = <<>>
                   /\ inserted[w] = 0

\* An empty option was posted to /vote while votes were stored.
C4_Witness ==
    \E w \in Workers :
        /\ pc[w] = "done"
        /\ req[w] = Request("/vote", "POST", PyStr(""), None)
        /\ Rows # <<>>

\* A backend nothing has touched.
Untouched(b) == ~opened[b] /\ votes[b] = [table |-> FALSE, rows |-> <<>>]

\* C5: with DB_HOST non-empty and the postgres driver missing the process never
\* serves a request and never touches the sqlite store; and in every case only
\* the backend chosen from DB_HOST at startup is ever opened, initialized,
\* written or read.
C5_NoFallbackAndFixedBackend ==
    LET chosen == IF Truthy(DB_HOST) THEN "postgres" ELSE "sqlite"
    IN /\ (Truthy(DB_HOST) /\ ~psycopg2)
            => /\ phase \in {"import", "fatal"}
               /\ \A w \in Workers : pc[w] = "idle"
               /\ \A b \in Backends : Untouched(b)
       /\ \A b \in Backends \ {chosen} : Untouched(b)
       /\ USE_POSTGRES = Truthy(DB_HOST)

\* The import failed for want of the driver.
C5_Witness ==
    /\ Truthy(DB_HOST)
    /\ ~psycopg2
    /\ phase = "fatal"

\* C6: every stored vote has a non-null, non-empty text candidate.
C6_StoredCandidatesNonEmpty ==
    \A b \in Backends : \A i \in DOMAIN votes[b].rows : votes[b].rows[i] # ""

\* Thread w takes this step.
Acts(w) == pc'[w] # pc[w]

\* The request thread w is handling during this step.
Handling(w) == IF pc[w] = "idle" THEN req'[w] ELSE req[w]

LegacyAndJsonVote(r) == r.method = "POST" /\ r.route \in {"/vote", "/api/vote"}
VoteSubmission(r) == r.method = "POST" /\ r.route \in {"/", "/vote", "/api/vote"}

\* C7, as stated: only the two vote-submission endpoints, /vote and /api/vote,
\* mutate storage; a request to any other endpoint or method has added no row.
C7_OnlyTwoEndpointsMutate ==
    \A w \in Workers : ~LegacyAndJsonVote(req[w]) => inserted[w] = 0

\* C7, amended: only the three vote-submission handlers (POST "/", POST /vote,
\* POST /api/vote) mutate storage; no step of any other request (GET "/",
\* GET /api/results, GET /health, any remaining route) changes the votes table.
C7_OnlyVoteSubmissionsMutate ==
    [][\A w \in Workers :
        (Acts(w) /\ ~VoteSubmission(Handling(w))) => votes' = votes]_vars

\* GET /api/results has read a table that a POST to "/" wrote.
C7_Witness ==
    \E w, v \in Workers :
        /\ pc[w] = "done"
        /\ req[w] = Request("/api/results", "GET", None, None)
        /\ resp[w].status = 200
        /\ DOMAIN results[w] # {}
        /\ req[v] = Request("/", "POST", PyStr("AWS"), None)
        /\ inserted[v] = 1

RECURSIVE SumCounts(_, _)
SumCounts(m, keys) ==
    IF keys = {}
    THEN 0
    ELSE LET k == CHOOSE k \in keys : TRUE
         IN m[k] + SumCounts(m, keys \ {k})

\* C8: under any interleaving of requests, the number of stored rows, and the
\* sum of the counts get_results() returns, equals the number of vote
\* submissions whose insert_vote call has returned; no stored row is ever
\* changed or removed, and no candidate's count ever decreases.
C8_OneRowPerAcceptedVote ==
    /\ [](/\ Len(Rows) = accepted
          /\ SumCounts(ResultsOf(Rows), DOMAIN ResultsOf(Rows)) = accepted)
    /\ [][/\ Len(Rows') >= Len(Rows)
          /\ \A i \in DOMAIN Rows : Rows'[i] = Rows[i]
          /\ \A c \in DOMAIN ResultsOf(Rows) :
                CountIn(ResultsOf(Rows'), c) >= ResultsOf(Rows)[c]]_vars

\* Two requests in flight at once have each stored a vote for the same
\* candidate.
C8_Witness ==
    \E w, v \in Workers :
        /\ w # v
        /\ pc[w] \in {"get_results", "done"}
        /\ pc[v] \in {"get_results", "done"}
        /\ inserted[w] = 1
        /\ inserted[v] = 1
        /\ candidate[w] = candidate[v]
        /\ accepted >= 2

\* C9: every call of insert_vote and get_results has closed its connection by
\* the time it returns or raises, also when the statement fails: no finished
\* call leaves a connection open.
C9_NoConnectionLeftOpen ==
    \A w \in Workers : unclosed[w] = 0

\* C10, as stated: each request performs at most one storage operation.
C10_AtMostOneStorageCall ==
    \A w \in Workers : Len(calls[w]) <= 1

\* C10, amended: each request performs at most two storage operations: one
\* insert_vote and then one get_results for a form submission (POST "/" or
\* POST /vote) that carries an option, at most one insert_vote for
\* POST /api/vote, one get_results for GET /api/results, none for any other
\* request.
C10_StorageCallsPerRequest ==
    \A w \in Workers :
        LET e == Endpoint(req[w])
        IN /\ e \in {"index", "vote"}
                => calls[w] \in {<<>>, <<"insert_vote">>, <<"insert_vote", "get_results">>}
           /\ e \in {"index", "vote"} /\ ~Truthy(req[w].form) => calls[w] = <<>>
           /\ e = "index" /\ req[w].method = "GET" => calls[w] = <<>>
           /\ e = "api_vote" => calls[w] \in {<<>>, <<"insert_vote">>}
           /\ e = "api_results" => calls[w] = <<"get_results">>
           /\ e \notin {"index", "vote", "api_vote", "api_results"} => calls[w] = <<>>

\* A form submission has stored its vote and read the results back.
C10_Witness ==
    \E w \in Workers :
        /\ pc[w] = "done"
        /\ resp[w] = Response(200, "template", "result.html")
        /\ calls[w] = <<"insert_vote", "get_results">>
        /\ inserted[w] = 1

====
